---------------------------- MODULE Spec2Model ----------------------------
(***************************************************************************)
(* A model of DataImporter (src/services/DataImporter.ts): the import of   *)
(* a hierarchical operator / EVSE feed into the relational store.          *)
(*                                                                         *)
(* Strings are sequences of one-character strings, so that the regular     *)
(* expressions of the importer are computed character by character.  A    *)
(* character that has no escape in a string of this language is written as *)
(* its code point: "U+2028" is the one character LINE SEPARATOR.  The       *)
(* JavaScript value null (and an absent property) is the value NULL.       *)
(***************************************************************************)
EXTENDS Naturals, Sequences, FiniteSets

(***************************************************************************)
(* Characters and strings                                                  *)
(***************************************************************************)
NULL == <<"null">>

Upper == {"A","B","C","D","E","F","G","H","I","J","K","L","M",
          "N","O","P","Q","R","S","T","U","V","W","X","Y","Z"}

Lower == {"a","b","c","d","e","f","g","h","i","j","k","l","m",
          "n","o","p","q","r","s","t","u","v","w","x","y","z"}

Digit == {"0","1","2","3","4","5","6","7","8","9"}

Alpha == Upper \cup Lower

AlNum == Alpha \cup Digit

\* The characters the regular expression atom "." does not match (no s
\* flag): the ECMAScript LineTerminator characters.
LineTerminator == {"\n", "\r", "U+2028", "U+2029"}

\* The characters String.prototype.trim removes at both ends: the ECMAScript
\* WhiteSpace characters (tab, vertical tab, form feed, space, no-break
\* space, byte order mark and the space separators) and the LineTerminator
\* characters.
WhiteSpace ==
  {"\t", "U+000B", "\f", " ", "U+00A0", "U+FEFF",
   "U+1680", "U+2000", "U+2001", "U+2002", "U+2003", "U+2004", "U+2005",
   "U+2006", "U+2007", "U+2008", "U+2009", "U+200A", "U+202F", "U+205F",
   "U+3000"} \cup LineTerminator

\* s[i..j] lies inside s and all its characters are in class
AllIn(s, i, j, class) ==
  /\ i >= 1
  /\ j <= Len(s)
  /\ \A k \in i..j : s[k] \in class

\* the literal lit occurs in s at position i
LitAt(s, i, lit) ==
  /\ i >= 1
  /\ i + Len(lit) - 1 <= Len(s)
  /\ \A k \in 1..Len(lit) : s[i + k - 1] = lit[k]

RECURSIVE TrimLeft(_)
TrimLeft(s) ==
  IF s # <<>> /\ Head(s) \in WhiteSpace THEN TrimLeft(Tail(s)) ELSE s

RECURSIVE TrimRight(_)
TrimRight(s) ==
  IF s # <<>> /\ s[Len(s)] \in WhiteSpace
  THEN TrimRight(SubSeq(s, 1, Len(s) - 1))
  ELSE s

\* String.prototype.trim
Trim(s) == TrimRight(TrimLeft(s))

\* JavaScript truthiness of an optional string: null, undefined and "" are falsy
Truthy(s) == s # NULL /\ s # <<>>

(***************************************************************************)
(* OPERATOR_ID_REGEX =                                                     *)
(*   /([A-Za-z]{2}\*?[A-Za-z0-9]{3})|(\+?[0-9]{1,3}\*[0-9]{3})/            *)
(***************************************************************************)
NoMatch == <<"nomatch">>

\* Length of the match of the first alternative at position i, 0 if none.
\* "\*?" is greedy: the star is taken when the match can be completed with it.
OperatorIdAlt1Len(s, i) ==
  IF AllIn(s, i, i + 1, Alpha)
  THEN IF LitAt(s, i + 2, <<"*">>) /\ AllIn(s, i + 3, i + 5, AlNum) THEN 6
       ELSE IF AllIn(s, i + 2, i + 4, AlNum) THEN 5
       ELSE 0
  ELSE 0

\* the second alternative with n digits of country code after an optional "+"
OperatorIdAlt2Digits(s, d, n) ==
  /\ AllIn(s, d, d + n - 1, Digit)
  /\ LitAt(s, d + n, <<"*">>)
  /\ AllIn(s, d + n + 1, d + n + 3, Digit)

\* Length of the match of the second alternative at position i, 0 if none.
\* "[0-9]{1,3}" is greedy: three digits are tried before two before one.
OperatorIdAlt2Len(s, i) ==
  LET p == IF LitAt(s, i, <<"+">>) THEN 1 ELSE 0
      d == i + p
  IN  IF OperatorIdAlt2Digits(s, d, 3) THEN p + 7
      ELSE IF OperatorIdAlt2Digits(s, d, 2) THEN p + 6
      ELSE IF OperatorIdAlt2Digits(s, d, 1) THEN p + 5
      ELSE 0

\* the match at position i: the first alternative is tried first
OperatorIdLenAt(s, i) ==
  IF OperatorIdAlt1Len(s, i) > 0 THEN OperatorIdAlt1Len(s, i)
  ELSE OperatorIdAlt2Len(s, i)

\* OPERATOR_ID_REGEX.exec(s)[0]: the leftmost match, NoMatch when exec
\* returns null (reading [0] of it then throws)
OPERATOR_ID_REGEX_exec(s) ==
  LET starts == {i \in 1..Len(s) : OperatorIdLenAt(s, i) > 0}
  IN  IF starts = {} THEN NoMatch
      ELSE LET i == CHOOSE m \in starts : \A k \in starts : m <= k
           IN  SubSeq(s, i, i + OperatorIdLenAt(s, i) - 1)

(***************************************************************************)
(* processPossibleSubOperatorsFromEvseData: the forEach over the records   *)
(***************************************************************************)
\* some record's EvseId does not match: exec returns null and [0] throws
SubOperatorsThrows(evseData) ==
  \E i \in 1..Len(evseData) : OPERATOR_ID_REGEX_exec(evseData[i].EvseId) = NoMatch

\* a mutant: the sub operator is compared with the id, never pushed
SubOperatorRowsOfNone(data) == <<>>

\* the rows one record pushes to subOperators
SubOperatorRowsOf(data) ==
  LET possibleSupOperatorId == OPERATOR_ID_REGEX_exec(data.EvseId)
  IN  IF data.OperatorId # possibleSupOperatorId
      THEN << [id |-> possibleSupOperatorId, name |-> NULL, parentId |-> data.OperatorId] >>
      ELSE <<>>

\* a mutant: the operator id of the record is left as it was
AdjustedRecordUnchanged(data) == data

\* the record after the forEach body: OperatorId adjusted to the sub operator
AdjustedRecord(data) ==
  LET possibleSupOperatorId == OPERATOR_ID_REGEX_exec(data.EvseId)
  IN  IF data.OperatorId # possibleSupOperatorId
      THEN [data EXCEPT !.OperatorId = possibleSupOperatorId]
      ELSE data

\* the subOperators array after the forEach, in record order
RECURSIVE SubOperatorsOf(_)
SubOperatorsOf(evseData) ==
  IF evseData = <<>> THEN <<>>
  ELSE SubOperatorRowsOf(Head(evseData)) \o SubOperatorsOf(Tail(evseData))

\* the records after the forEach
AdjustedEvseData(evseData) ==
  [i \in 1..Len(evseData) |-> AdjustedRecord(evseData[i])]

\* the first record whose EvseId does not match, at which the forEach throws
FirstThrowing(evseData) ==
  CHOOSE i \in 1..Len(evseData) :
    /\ OPERATOR_ID_REGEX_exec(evseData[i].EvseId) = NoMatch
    /\ \A j \in 1..(i - 1) : OPERATOR_ID_REGEX_exec(evseData[j].EvseId) # NoMatch

\* the records when the forEach throws: the records before the one it throws
\* at are adjusted in place, the others are as they were
AdjustedUntilThrow(evseData) ==
  [i \in 1..Len(evseData) |->
     IF i < FirstThrowing(evseData) THEN AdjustedRecord(evseData[i]) ELSE evseData[i]]

(***************************************************************************)
(* getInternationalData: the regular expressions                           *)
(***************************************************************************)
CHARGING_STATION_NAME_ALPHA_3 == <<"D","E","U">>

EN_CHARGING_STATION_NAME_ALPHA_3 == <<"G","B","R">>

Delimiter == <<"|","|","|">>

\* all characters of s[i..j] are matched by "."
AllDot(s, i, j) == \A k \in i..j : s[k] \notin LineTerminator

\* the positions from i on at which the delimiter occurs
DelimitersFrom(s, i) == {j \in i..Len(s) : LitAt(s, j, Delimiter)}

\* the first position from i on at which the delimiter occurs (0: none)
FirstDelimiterFrom(s, i) ==
  IF DelimitersFrom(s, i) = {} THEN 0
  ELSE CHOOSE j \in DelimitersFrom(s, i) : \A k \in DelimitersFrom(s, i) : j <= k

\* LOCALIZED_INFO_REGEX = /([A-Z]{3}):(.*?)\|\|\|/g matches at position i:
\* the lazy (.*?) stops at the first delimiter and crosses no line terminator
LocalizedInfoMatchesAt(s, i) ==
  /\ AllIn(s, i, i + 2, Upper)
  /\ LitAt(s, i + 3, <<":">>)
  /\ FirstDelimiterFrom(s, i + 4) # 0
  /\ AllDot(s, i + 4, FirstDelimiterFrom(s, i + 4) - 1)

\* LOCALIZED_INFO_REGEX.exec(s) with the search starting at position from
\* (lastIndex + 1): the match found and the position after it, or found = FALSE
\* (exec returns null and resets lastIndex to 0, position 1)
LOCALIZED_INFO_REGEX_exec(s, from) ==
  LET starts == {i \in from..Len(s) : LocalizedInfoMatchesAt(s, i)}
  IN  IF starts = {} THEN [found |-> FALSE, next |-> 1]
      ELSE LET i == CHOOSE m \in starts : \A k \in starts : m <= k
               j == FirstDelimiterFrom(s, i + 4)
           IN  [found |-> TRUE, next |-> j + 3,
                countryAlpha3 |-> SubSeq(s, i, i + 2),
                content |-> SubSeq(s, i + 4, j - 1)]

\* new RegExp(alpha3 + ':.*\\|\\|\\|').test(s): alpha3 and a colon anywhere in
\* s, followed on the same line by a delimiter
ALPHA_3_REGEX_test(alpha3, s) ==
  \E i \in 1..Len(s) :
    /\ LitAt(s, i, alpha3 \o <<":">>)
    /\ \E j \in DelimitersFrom(s, i + 4) : AllDot(s, i + 4, j - 1)

(***************************************************************************)
(* getInternationalData: the forEach callback of one EVSE data record.     *)
(* A request is one call of getEvseTr.                                     *)
(***************************************************************************)
Request(alpha3, evseId, chargingStationName, additionalInfo) ==
  [alpha3 |-> alpha3, evseId |-> evseId,
   chargingStationName |-> chargingStationName, additionalInfo |-> additionalInfo]

\* the request the body of the while loop pushes for one match
ScannedRequest(data, match) ==
  Request(match.countryAlpha3, data.EvseId,
          IF match.countryAlpha3 = EN_CHARGING_STATION_NAME_ALPHA_3
            THEN data.EnChargingStationName
          ELSE IF match.countryAlpha3 = CHARGING_STATION_NAME_ALPHA_3
            THEN data.ChargingStationName
          ELSE NULL,
          Trim(match.content))

\* the while loop: exec until it returns null
RECURSIVE ScannedRequests(_, _)
ScannedRequests(data, from) ==
  LET match == LOCALIZED_INFO_REGEX_exec(data.EnAdditionalInfo, from)
  IN  IF match.found
      THEN <<ScannedRequest(data, match)>> \o ScannedRequests(data, match.next)
      ELSE <<>>

\* the position the global regular expression is left at by the while loop
RECURSIVE ScanLeavesAt(_, _)
ScanLeavesAt(s, from) ==
  LET match == LOCALIZED_INFO_REGEX_exec(s, from)
  IN  IF match.found THEN ScanLeavesAt(s, match.next) ELSE match.next

\* the entity created manually for an anchor the field does not consist of
BackfillRequests(data, alpha3, name) ==
  IF /\ ~ALPHA_3_REGEX_test(alpha3, data.EnAdditionalInfo)
     /\ Truthy(name)
     /\ Trim(name) # <<>>
  THEN <<Request(alpha3, data.EvseId, name, NULL)>>
  ELSE <<>>

\* the getEvseTr calls of the callback for one record, in order, with the
\* global regular expression at position from when the callback starts
RequestsOf(data, from) ==
  IF ~Truthy(data.EnAdditionalInfo) THEN <<>>
  ELSE ScannedRequests(data, from)
         \o BackfillRequests(data, EN_CHARGING_STATION_NAME_ALPHA_3, data.EnChargingStationName)
         \o BackfillRequests(data, CHARGING_STATION_NAME_ALPHA_3, data.ChargingStationName)

\* the position of the global regular expression after the callback
LastIndexAfter(data, from) ==
  IF ~Truthy(data.EnAdditionalInfo) THEN from
  ELSE ScanLeavesAt(data.EnAdditionalInfo, from)

(***************************************************************************)
(* getEvseTr and the country-to-language lookup                            *)
(***************************************************************************)
\* dataImportHelper.getLanguageCodeByISO3166Alpha3: the language of a country,
\* NoMatch for a country the helper does not know (the promise rejects)
LanguageCodeByISO3166Alpha3(alpha3) ==
  IF alpha3 = <<"D","E","U">> THEN <<"d","e">>
  ELSE IF alpha3 = <<"G","B","R">> THEN <<"e","n">>
  ELSE IF alpha3 = <<"F","R","A">> THEN <<"f","r">>
  ELSE NoMatch

\* a mutant: getEvseTr without the catch
EvseTrNoCatch(request, lookupFails) ==
  IF lookupFails \/ LanguageCodeByISO3166Alpha3(request.alpha3) = NoMatch
  THEN [state |-> "rejected"]
  ELSE [state |-> "resolved",
        value |-> [evseId |-> request.evseId,
                   chargingStationName |-> request.chargingStationName,
                   languageCode |-> LanguageCodeByISO3166Alpha3(request.alpha3),
                   additionalInfo |-> request.additionalInfo]]

\* the promise getEvseTr returns, settled: a failed lookup is caught and the
\* alpha 3 code is the language code
EvseTr(request, lookupFails) ==
  [state |-> "resolved",
   value |-> [evseId |-> request.evseId,
              chargingStationName |-> request.chargingStationName,
              languageCode |->
                IF lookupFails \/ LanguageCodeByISO3166Alpha3(request.alpha3) = NoMatch
                THEN request.alpha3
                ELSE LanguageCodeByISO3166Alpha3(request.alpha3),
              additionalInfo |-> request.additionalInfo]]

\* the promises one callback pushes, settled; fails: the calls whose lookup fails
EvseTrsOf(requests, fails) ==
  [i \in 1..Len(requests) |-> EvseTr(requests[i], i \in fails)]

\* getInternationalData over all records: Promise.all of the settled promises,
\* in push order.  fails: the getEvseTr calls (numbered in push order over the
\* whole batch) whose lookup fails.  The global regular expression state is
\* carried from one record to the next.
RECURSIVE InternationalRequests(_, _)
InternationalRequests(evseData, from) ==
  IF evseData = <<>> THEN <<>>
  ELSE RequestsOf(Head(evseData), from)
         \o InternationalRequests(Tail(evseData), LastIndexAfter(Head(evseData), from))

GetInternationalData(evseData, fails) ==
  LET promises == EvseTrsOf(InternationalRequests(evseData, 1), fails)
  IN  IF \E i \in 1..Len(promises) : promises[i].state = "rejected"
      THEN [state |-> "rejected"]
      ELSE [state |-> "resolved",
            value |-> [i \in 1..Len(promises) |-> promises[i].value]]

(***************************************************************************)
(* The feed: mapOperatorDataToOperators, retrieveEvseDataFromOperatorData   *)
(* and mapEvseDataToEvses                                                  *)
(***************************************************************************)
\* dataImportHelper.getArrayByValue_Array: a single value becomes an array
ArrayByValue_Array(v) ==
  IF v.tag = "array" THEN v.value ELSE <<v.value>>

MapOperatorDataToOperators(operatorData) ==
  [i \in 1..Len(operatorData) |->
     [id |-> operatorData[i].OperatorID, name |-> operatorData[i].OperatorName]]

\* the records of one operator, each with the operator id stored to it
EvseDataOfOperator(od) ==
  LET records == ArrayByValue_Array(od.EvseDataRecord)
  IN  [i \in 1..Len(records) |-> [records[i] EXCEPT !.OperatorId = od.OperatorID]]

RECURSIVE RetrieveEvseDataFromOperatorData(_)
RetrieveEvseDataFromOperatorData(operatorData) ==
  IF operatorData = <<>> THEN <<>>
  ELSE EvseDataOfOperator(Head(operatorData))
         \o RetrieveEvseDataFromOperatorData(Tail(operatorData))

\* the columns of the EVSE row that the claims read; the address, geo, flag
\* and hub columns are copied or converted field by field in the same way
MapEvseDataToEvses(evseData) ==
  [i \in 1..Len(evseData) |->
     [id |-> evseData[i].EvseId,
      operatorId |-> evseData[i].OperatorId,
      chargingStationName |-> evseData[i].ChargingStationName]]

(***************************************************************************)
(* processEVSERelationalData: the enum catalogs and the join rows          *)
(***************************************************************************)
Categories ==
  {"EVSEAuthenticationMode", "EVSEChargingFacility", "EVSEChargingMode",
   "EVSEPaymentOption", "EVSEPlug", "EVSEValueAddedService"}

\* the property of an EVSE data record that lists a category's options
OptionsField(category) ==
  CASE category = "EVSEAuthenticationMode" -> "AuthenticationModes"
    [] category = "EVSEChargingFacility" -> "ChargingFacilities"
    [] category = "EVSEChargingMode" -> "ChargingModes"
    [] category = "EVSEPaymentOption" -> "PaymentOptions"
    [] category = "EVSEPlug" -> "Plugs"
    [] category = "EVSEValueAddedService" -> "ValueAddedServices"

\* the models fetched by loadDependentData, per category: the reference data
Catalog(category) ==
  CASE category = "EVSEAuthenticationMode" ->
         {[id |-> 1, name |-> "NFC RFID Classic"], [id |-> 2, name |-> "REMOTE"]}
    [] category = "EVSEChargingFacility" ->
         {[id |-> 1, name |-> <<"AC", "16A">>], [id |-> 2, name |-> <<"DC", "50kW">>]}
    [] category = "EVSEChargingMode" ->
         {[id |-> 1, name |-> "Mode_3"]}
    [] category = "EVSEPaymentOption" ->
         {[id |-> 1, name |-> "Contract"], [id |-> 2, name |-> "Direct"]}
    [] category = "EVSEPlug" ->
         {[id |-> 1, name |-> "Type 2 Outlet"], [id |-> 2, name |-> "CCS Combo 2 Plug"]}
    [] category = "EVSEValueAddedService" ->
         {[id |-> 1, name |-> "Reservation"]}

\* the join rows of one record: one per option that names a model of the
\* catalog (for a charging facility, by both attributes); others are dropped
RECURSIVE RelationRowsOf(_, _, _)
RelationRowsOf(evseId, options, models) ==
  IF options = <<>> THEN <<>>
  ELSE LET hit == {m \in models : m.name = Head(options)}
       IN  (IF hit = {} THEN <<>>
            ELSE <<[evseId |-> evseId, enumId |-> (CHOOSE m \in hit : TRUE).id]>>)
             \o RelationRowsOf(evseId, Tail(options), models)

\* dataImportHelper.getEvseRelationByEvseData / getChargingFacilitiesByEvseData
RECURSIVE EvseRelationByEvseData(_, _)
EvseRelationByEvseData(evseData, category) ==
  IF evseData = <<>> THEN <<>>
  ELSE RelationRowsOf(Head(evseData).EvseId,
                      Head(evseData)[OptionsField(category)], Catalog(category))
         \o EvseRelationByEvseData(Tail(evseData), category)

(***************************************************************************)
(* The store: tables as sets of rows, delete and insertOrUpdate            *)
(***************************************************************************)
OperatorColumns == {"id", "name", "parentId"}

EvseColumns == {"id", "operatorId", "chargingStationName"}

EvseTrColumns == {"evseId", "languageCode", "chargingStationName", "additionalInfo"}

JoinColumns == {"evseId", "enumId"}

EmptyStore ==
  [Operator |-> {}, EVSE |-> {}, EVSE_tr |-> {}, joins |-> [c \in Categories |-> {}]]

\* one row inserted, or the columns it gives updated in the row with its key
InsertOrUpdateRow(table, row, key, columns) ==
  LET old == {r \in table : \A k \in key : r[k] = row[k]}
  IN  IF old = {}
      THEN table \cup {[c \in columns |-> IF c \in DOMAIN row THEN row[c] ELSE NULL]}
      ELSE LET o == CHOOSE r \in old : TRUE
           IN  (table \ old)
                 \cup {[c \in columns |-> IF c \in DOMAIN row THEN row[c] ELSE o[c]]}

\* trx(table).insertOrUpdate(rows): the rows in order
RECURSIVE InsertOrUpdate(_, _, _, _)
InsertOrUpdate(table, rows, key, columns) ==
  IF rows = <<>> THEN table
  ELSE InsertOrUpdate(InsertOrUpdateRow(table, Head(rows), key, columns),
                      Tail(rows), key, columns)

\* clearData: its one statement, trx('EVSE').delete(), deletes the rows of EVSE.
\* The store deletes per table, for EVSE as for Operator: the rows of EVSE_tr
\* and of the join tables are left to the statements that write them.
ClearedEvse(store) == [store EXCEPT !.EVSE = {}]

\* trx('Operator').delete()
ClearedOperator(store) == [store EXCEPT !.Operator = {}]

(***************************************************************************)
(* The feeds given to execute                                              *)
(***************************************************************************)
DE_TBA == <<"D","E","*","T","B","A">>

DE_TBB == <<"D","E","*","T","B","B">>

DE_TBC == <<"D","E","*","T","B","C">>

NoOptions ==
  [AuthenticationModes |-> <<>>, ChargingFacilities |-> <<>>, ChargingModes |-> <<>>,
   PaymentOptions |-> <<>>, Plugs |-> <<>>, ValueAddedServices |-> <<>>]

\* an EVSE data record as the feed gives it (OperatorId is set by the importer)
EvseDataRecord(evseId, name, enName, enInfo, options) ==
  [EvseId |-> evseId, OperatorId |-> NULL, ChargingStationName |-> name,
   EnChargingStationName |-> enName, EnAdditionalInfo |-> enInfo,
   AuthenticationModes |-> options.AuthenticationModes,
   ChargingFacilities |-> options.ChargingFacilities,
   ChargingModes |-> options.ChargingModes,
   PaymentOptions |-> options.PaymentOptions,
   Plugs |-> options.Plugs,
   ValueAddedServices |-> options.ValueAddedServices]

\* DE*TBA*E1: the id consists of the operator id DE*TBA
EvseA1 ==
  EvseDataRecord(DE_TBA \o <<"*","E","1">>, <<"N","1">>, <<"E","1">>,
                 <<"D","E","U",":"," ","a","|","|","|">>,
                 [NoOptions EXCEPT !.AuthenticationModes = <<"NFC RFID Classic">>,
                                   !.Plugs = <<"Type 2 Outlet", "Schuko">>])

\* DE*TBB*E2: an option list that resolves to nothing, and a charging facility
EvseB2 ==
  EvseDataRecord(DE_TBB \o <<"*","E","2">>, <<"N","2">>, NULL, NULL,
                 [NoOptions EXCEPT !.ChargingFacilities = << <<"DC", "50kW">> >>,
                                   !.ValueAddedServices = <<"None">>])

\* DE*TBC*E3 and DE*TBC*E4: two records of the same undeclared operator
EvseC3 ==
  EvseDataRecord(DE_TBC \o <<"*","E","3">>, NULL, <<"E","3">>, NULL,
                 [NoOptions EXCEPT !.PaymentOptions = <<"Contract", "Direct">>])

EvseC4 ==
  EvseDataRecord(DE_TBC \o <<"*","E","4">>, NULL, NULL, NULL, NoOptions)

\* an id the operator id pattern does not match
EvseX9 ==
  EvseDataRecord(<<"E","9">>, NULL, NULL, NULL, NoOptions)

OperatorEvseData(id, name, records) ==
  [OperatorID |-> id, OperatorName |-> name,
   EvseDataRecord |-> [tag |-> "array", value |-> records]]

OperatorA(records) == OperatorEvseData(DE_TBA, <<"T","B","A">>, records)

OperatorB(records) == OperatorEvseData(DE_TBB, <<"T","B","B">>, records)

\* data.EvseData.OperatorEvseData of the feeds imported
Feeds ==
  { <<OperatorA(<<EvseA1>>)>>,
    <<OperatorA(<<EvseA1, EvseC3, EvseC4>>)>>,
    <<OperatorA(<<EvseB2>>), OperatorB(<<>>)>>,
    <<OperatorA(<<EvseB2>>), OperatorB(<<EvseA1>>)>>,
    <<OperatorA(<<EvseB2, EvseX9>>)>>,
    << [OperatorID |-> DE_TBB, OperatorName |-> <<"T","B","B">>,
        EvseDataRecord |-> [tag |-> "value", value |-> EvseC3]] >>,
    <<OperatorA(<<>>)>> }

(***************************************************************************)
(* The state                                                               *)
(***************************************************************************)
VARIABLES
  pc,        \* where the promise chain of execute stands
  feed,      \* operatorData of the run
  cached,    \* whether the enum catalogs are cached on the importer
  evseData,  \* the EVSE data records of processEvseData
  db,        \* the destination store, as committed
  trx,       \* the store as the open transaction sees it
  writes,    \* the state of each statement of the run
  emitted,   \* the rows handed to insertOrUpdate in the run
  before,    \* the store when the station phase's transaction began
  arg,       \* the input of a function applied on its own
  ret        \* its result

vars == <<pc, feed, cached, evseData, db, trx, writes, emitted, before, arg, ret>>

runVars == <<pc, feed, cached, evseData, db, trx, writes, emitted, before>>

Sequential == {"opDelete", "opUpsert", "clear", "subOperators", "evses", "evseTrs"}

\* the commits of the two transactions
Commits == {"opCommit", "commit"}

Statements == Sequential \cup Categories \cup Commits

NoWrites == [w \in Statements |-> "none"]

NoRows ==
  [operators |-> <<>>, subOperators |-> <<>>, evses |-> <<>>, evseTrs |-> <<>>,
   joins |-> [c \in Categories |-> <<>>]]

NoFeed == <<>>

Idle ==
  /\ pc = "idle"
  /\ feed = NoFeed
  /\ evseData = <<>>
  /\ trx = EmptyStore
  /\ writes = NoWrites
  /\ emitted = NoRows
  /\ before = EmptyStore

Init ==
  /\ Idle
  /\ cached = FALSE
  /\ db = EmptyStore
  /\ arg = <<>>
  /\ ret = <<>>

(***************************************************************************)
(* execute: loadDependentData, then processOperatorData, then               *)
(* processEvseData.  Each action is one callback of the promise chain: it   *)
(* runs when the statement before it has completed, and issues the next.    *)
(***************************************************************************)
Execute(data) ==
  /\ pc = "idle"
  /\ pc' = "load"
  /\ feed' = data
  /\ UNCHANGED <<cached, evseData, db, trx, writes, emitted, before, arg, ret>>

\* the spread callback: the catalogs are kept on the importer
LoadDependentData ==
  /\ pc = "load"
  /\ cached' = TRUE
  /\ pc' = "operator"
  /\ UNCHANGED <<feed, evseData, db, trx, writes, emitted, before, arg, ret>>

\* a fetchAll rejects; nothing is fetched when the catalogs are cached
LoadDependentDataFails ==
  /\ pc = "load"
  /\ ~cached
  /\ pc' = "rejected"
  /\ UNCHANGED <<feed, cached, evseData, db, trx, writes, emitted, before, arg, ret>>

\* processOperatorData: the transaction begins and the delete is issued
ProcessOperatorData ==
  /\ pc = "operator"
  /\ emitted' = [emitted EXCEPT !.operators = MapOperatorDataToOperators(feed)]
  /\ trx' = db
  /\ writes' = [writes EXCEPT !["opDelete"] = "issued"]
  /\ pc' = "opDelete"
  /\ UNCHANGED <<feed, cached, evseData, db, before, arg, ret>>

\* the delete has completed: insertOrUpdate(operators) is issued
OperatorDeleted ==
  /\ pc = "opDelete"
  /\ trx' = ClearedOperator(trx)
  /\ writes' = [writes EXCEPT !["opDelete"] = "done", !["opUpsert"] = "issued"]
  /\ pc' = "opUpsert"
  /\ UNCHANGED <<feed, cached, evseData, db, emitted, before, arg, ret>>

\* the insertOrUpdate has completed: the handler's promise resolves
OperatorsUpserted ==
  /\ pc = "opUpsert"
  /\ trx' = [trx EXCEPT !.Operator =
               InsertOrUpdate(@, emitted.operators, {"id"}, OperatorColumns)]
  /\ writes' = [writes EXCEPT !["opUpsert"] = "done"]
  /\ pc' = "opCommit"
  /\ UNCHANGED <<feed, cached, evseData, db, emitted, before, arg, ret>>

\* the operator transaction commits
CommitOperatorData ==
  /\ pc = "opCommit"
  /\ db' = trx
  /\ writes' = [writes EXCEPT !["opCommit"] = "done"]
  /\ pc' = "evse"
  /\ UNCHANGED <<feed, cached, evseData, trx, emitted, before, arg, ret>>

\* a statement of the operator transaction fails: it rolls back, execute rejects
OperatorStatementFails ==
  /\ pc \in {"opDelete", "opUpsert"}
  /\ writes' = [writes EXCEPT ![pc] = "failed"]
  /\ pc' = "rejected"
  /\ UNCHANGED <<feed, cached, evseData, db, trx, emitted, before, arg, ret>>

\* a mutant: the records are processed without waiting for clearData
ProcessEvseDataNoWait ==
  /\ pc = "evse"
  /\ evseData' = RetrieveEvseDataFromOperatorData(feed)
  /\ trx' = ClearedEvse(db)
  /\ before' = db
  /\ writes' = [writes EXCEPT !["clear"] = "issued", !["subOperators"] = "issued"]
  /\ pc' = "subOperators"
  /\ UNCHANGED <<feed, cached, db, emitted, arg, ret>>

\* processEvseData: the records are retrieved, the transaction begins and
\* clearData is issued
ProcessEvseData ==
  /\ pc = "evse"
  /\ evseData' = RetrieveEvseDataFromOperatorData(feed)
  /\ trx' = db
  /\ before' = db
  /\ writes' = [writes EXCEPT !["clear"] = "issued"]
  /\ pc' = "clear"
  /\ UNCHANGED <<feed, cached, db, emitted, arg, ret>>

\* clearData has completed: processPossibleSubOperatorsFromEvseData adjusts
\* the records and issues insertOrUpdate(subOperators)
ProcessPossibleSubOperators ==
  /\ pc = "clear"
  /\ ~SubOperatorsThrows(evseData)
  /\ trx' = ClearedEvse(trx)
  /\ emitted' = [emitted EXCEPT !.subOperators = SubOperatorsOf(evseData)]
  /\ evseData' = AdjustedEvseData(evseData)
  /\ writes' = [writes EXCEPT !["clear"] = "done", !["subOperators"] = "issued"]
  /\ pc' = "subOperators"
  /\ UNCHANGED <<feed, cached, db, before, arg, ret>>

\* clearData has completed and an EvseId does not match: the callback throws
\* at that record, with the records before it adjusted and no statement issued
ProcessPossibleSubOperatorsThrows ==
  /\ pc = "clear"
  /\ SubOperatorsThrows(evseData)
  /\ trx' = ClearedEvse(trx)
  /\ evseData' = AdjustedUntilThrow(evseData)
  /\ writes' = [writes EXCEPT !["clear"] = "done"]
  /\ pc' = "rollback"
  /\ UNCHANGED <<feed, cached, db, emitted, before, arg, ret>>

\* the sub operators are stored: the records are mapped and
\* insertOrUpdate(evses) is issued
InsertEvses ==
  /\ pc = "subOperators"
  /\ trx' = [trx EXCEPT !.Operator =
               InsertOrUpdate(@, emitted.subOperators, {"id"}, OperatorColumns)]
  /\ emitted' = [emitted EXCEPT !.evses = MapEvseDataToEvses(evseData)]
  /\ writes' = [writes EXCEPT !["subOperators"] = "done", !["evses"] = "issued"]
  /\ pc' = "evses"
  /\ UNCHANGED <<feed, cached, evseData, db, before, arg, ret>>

\* the EVSEs are stored: processInternationalData calls getInternationalData,
\* which makes the getEvseTr calls of every record; their lookups are pending
ProcessInternationalData ==
  /\ pc = "evses"
  /\ trx' = [trx EXCEPT !.EVSE = InsertOrUpdate(@, emitted.evses, {"id"}, EvseColumns)]
  /\ writes' = [writes EXCEPT !["evses"] = "done"]
  /\ pc' = "lookups"
  /\ UNCHANGED <<feed, cached, evseData, db, emitted, before, arg, ret>>

\* the lookups have settled (any of them may have failed) and Promise.all
\* with them: the callback of processInternationalData issues
\* insertOrUpdate(evseTrs)
InsertEvseTrs ==
  /\ pc = "lookups"
  /\ \E fails \in SUBSET (1..Len(InternationalRequests(evseData, 1))) :
       LET evseTrs == GetInternationalData(evseData, fails)
       IN  \/ /\ evseTrs.state = "resolved"
              /\ emitted' = [emitted EXCEPT !.evseTrs = evseTrs.value]
              /\ writes' = [writes EXCEPT !["evseTrs"] = "issued"]
              /\ pc' = "evseTrs"
           \/ /\ evseTrs.state = "rejected"
              /\ emitted' = emitted
              /\ writes' = writes
              /\ pc' = "rollback"
  /\ UNCHANGED <<feed, cached, evseData, db, trx, before, arg, ret>>

\* the statement of a category: issued when it has rows, null otherwise
JoinStatement(rows) == IF Len(rows) # 0 THEN "issued" ELSE "null"

\* the translations are stored: processEVSERelationalData computes the join
\* rows and issues the insertOrUpdate of every category that has rows
ProcessEVSERelationalData ==
  /\ pc = "evseTrs"
  /\ trx' = [trx EXCEPT !.EVSE_tr =
               InsertOrUpdate(@, emitted.evseTrs, {"evseId", "languageCode"}, EvseTrColumns)]
  /\ emitted' = [emitted EXCEPT !.joins =
                   [c \in Categories |-> EvseRelationByEvseData(evseData, c)]]
  /\ writes' = [w \in Statements |->
                  IF w \in Categories
                  THEN JoinStatement(EvseRelationByEvseData(evseData, w))
                  ELSE IF w = "evseTrs" THEN "done" ELSE writes[w]]
  /\ pc' = "joins"
  /\ UNCHANGED <<feed, cached, evseData, db, before, arg, ret>>

\* the insertOrUpdate of a category completes
JoinUpserted(c) ==
  /\ pc \in {"joins", "rollback"}
  /\ writes[c] = "issued"
  /\ trx' = [trx EXCEPT !.joins[c] =
               InsertOrUpdate(@, emitted.joins[c], {"evseId", "enumId"}, JoinColumns)]
  /\ writes' = [writes EXCEPT ![c] = "done"]
  /\ UNCHANGED <<pc, feed, cached, evseData, db, emitted, before, arg, ret>>

\* the insertOrUpdate of a category fails: Promise.all rejects
JoinFails(c) ==
  /\ pc \in {"joins", "rollback"}
  /\ writes[c] = "issued"
  /\ writes' = [writes EXCEPT ![c] = "failed"]
  /\ pc' = "rollback"
  /\ UNCHANGED <<feed, cached, evseData, db, trx, emitted, before, arg, ret>>

\* a statement of the chain of the station transaction fails
StationStatementFails ==
  /\ pc \in {"clear", "subOperators", "evses", "evseTrs"}
  /\ writes' = [writes EXCEPT ![pc] = "failed"]
  /\ pc' = "rollback"
  /\ UNCHANGED <<feed, cached, evseData, db, trx, emitted, before, arg, ret>>

\* a mutant: Promise.race, the handler resolves with the first completion
AllJoinsSettledAny ==
  \/ \A c \in Categories : writes[c] = "null"
  \/ \E c \in Categories : writes[c] = "done"

\* Promise.all resolves: every statement issued has completed
AllJoinsSettled == \A c \in Categories : writes[c] \in {"null", "done"}

\* the handler's promise has resolved: the station transaction commits
CommitEvseData ==
  /\ pc = "joins"
  /\ AllJoinsSettled
  /\ db' = trx
  /\ writes' = [writes EXCEPT !["commit"] = "done"]
  /\ pc' = "resolved"
  /\ UNCHANGED <<feed, cached, evseData, trx, emitted, before, arg, ret>>

\* a mutant: the rejection is swallowed and the transaction commits
RollbackEvseDataCommits ==
  /\ pc = "rollback"
  /\ db' = trx
  /\ pc' = "rejected"
  /\ UNCHANGED <<feed, cached, evseData, trx, writes, emitted, before, arg, ret>>

\* the handler's promise has rejected: the station transaction rolls back
RollbackEvseData ==
  /\ pc = "rollback"
  /\ pc' = "rejected"
  /\ UNCHANGED <<feed, cached, evseData, db, trx, writes, emitted, before, arg, ret>>

\* the promise of execute has settled; the importer waits for the next feed
Settled ==
  /\ pc \in {"resolved", "rejected"}
  /\ pc' = "idle"
  /\ feed' = NoFeed
  /\ evseData' = <<>>
  /\ trx' = EmptyStore
  /\ writes' = NoWrites
  /\ emitted' = NoRows
  /\ before' = EmptyStore
  /\ UNCHANGED <<cached, db, arg, ret>>

Next ==
  \/ \E data \in Feeds : Execute(data)
  \/ LoadDependentData
  \/ LoadDependentDataFails
  \/ ProcessOperatorData
  \/ OperatorDeleted
  \/ OperatorsUpserted
  \/ CommitOperatorData
  \/ OperatorStatementFails
  \/ ProcessEvseData
  \/ ProcessPossibleSubOperators
  \/ ProcessPossibleSubOperatorsThrows
  \/ InsertEvses
  \/ ProcessInternationalData
  \/ InsertEvseTrs
  \/ ProcessEVSERelationalData
  \/ \E c \in Categories : JoinUpserted(c)
  \/ \E c \in Categories : JoinFails(c)
  \/ StationStatementFails
  \/ CommitEvseData
  \/ RollbackEvseData
  \/ Settled

Spec == Init /\ [][Next]_vars

(***************************************************************************)
(* processPossibleSubOperatorsFromEvseData applied on its own to batches   *)
(* of records, each with the operator id of the operator that lists it     *)
(***************************************************************************)
MaxBatch == 2

ResolverEvseIds ==
  { DE_TBA \o <<"*","E","1">>,
    DE_TBB \o <<"*","E","2">>,
    <<"D","E","T","B","A","*","E","3">>,
    <<"+","4","9","*","1","2","3","*","E","4">>,
    <<"X","*","D","E","*","T","B","A","*","5">>,
    <<"E","9">> }

ResolverOperatorIds == { DE_TBA, <<"D","E","T","B","A">>, <<"+","4","9","*","1","2","3">> }

ResolverRecords ==
  { [EvseId |-> e, OperatorId |-> o] : e \in ResolverEvseIds, o \in ResolverOperatorIds }

ResolverBatches ==
  UNION { [1..n -> ResolverRecords] : n \in 1..MaxBatch }

ResolverInit ==
  /\ Idle
  /\ cached = FALSE
  /\ db = EmptyStore
  /\ arg \in ResolverBatches
  /\ ret = [state |-> "pending"]

\* the forEach runs to its end and the sub operators are handed to insertOrUpdate
SubOperatorsReturn ==
  /\ ret.state = "pending"
  /\ ~SubOperatorsThrows(arg)
  /\ ret' = [state |-> "returned",
             subOperators |-> SubOperatorsOf(arg),
             evseData |-> AdjustedEvseData(arg)]
  /\ UNCHANGED <<arg, runVars>>

\* the forEach throws at a record whose EvseId does not match
SubOperatorsThrow ==
  /\ ret.state = "pending"
  /\ SubOperatorsThrows(arg)
  /\ ret' = [state |-> "thrown", evseData |-> AdjustedUntilThrow(arg)]
  /\ UNCHANGED <<arg, runVars>>

ResolverNext == SubOperatorsReturn \/ SubOperatorsThrow

SpecResolver == ResolverInit /\ [][ResolverNext]_vars

(***************************************************************************)
(* The forEach callback of getInternationalData applied to one record      *)
(* after another; the global regular expression is shared by the calls     *)
(***************************************************************************)
MaxSegments == 2

\* the segments CODE:text the packed fields are made of
Segments ==
  { [code |-> <<"D","E","U">>, text |-> <<" ","a">>],
    [code |-> <<"G","B","R">>, text |-> <<" ","\f","b","U+00A0">>],
    [code |-> <<"U","S","A">>, text |-> <<>>],
    [code |-> <<"F","R","A">>, text |-> <<"x","\n","y">>],
    [code |-> <<"I","T","A">>, text |-> <<"x","U+2028","y">>],
    [code |-> <<"G","B","R">>, text |-> <<"c","|">>],
    [code |-> <<"D","E","U">>, text |-> <<"s"," ","G","B","R",":","t">>] }

\* the packed field made of segments, each terminated by the delimiter
RECURSIVE Pack(_)
Pack(segments) ==
  IF segments = <<>> THEN <<>>
  ELSE Head(segments).code \o <<":">> \o Head(segments).text \o Delimiter
         \o Pack(Tail(segments))

SegmentLists == UNION { [1..n -> Segments] : n \in 0..MaxSegments }

\* the packed fields: made of segments, absent, or not terminated
PackedFields ==
  { [segments |-> l, field |-> Pack(l)] : l \in SegmentLists }
    \cup { [segments |-> <<>>, field |-> NULL],
           [segments |-> <<>>, field |-> <<"D","E","U",":","a","|","|">>] }

NameFields == { NULL, <<"\f">>, <<"N","a","m","e">> }

EnNameFields == { NULL, <<" ","U+3000">>, <<"E","n"," ">> }

LocalizedRecords ==
  { [EvseId |-> DE_TBA \o <<"*","E","1">>, ChargingStationName |-> n,
     EnChargingStationName |-> en, EnAdditionalInfo |-> p.field, segments |-> p.segments] :
       n \in NameFields, en \in EnNameFields, p \in PackedFields }

\* a record; the global regular expression is at the start, where every call
\* of the callback leaves it
LocalizedArgs == { [data |-> data, lastIndex |-> 1] : data \in LocalizedRecords }

LocalizedInit ==
  /\ Idle
  /\ cached = FALSE
  /\ db = EmptyStore
  /\ arg \in LocalizedArgs
  /\ ret = [state |-> "pending"]

\* the promises of the getEvseTr calls: pending while the lookup is, settled
\* by the catch and the then of getEvseTr when the lookup has settled
PromisesOf(requests, lookups) ==
  [i \in 1..Len(requests) |->
     IF lookups[i] = "pending" THEN [state |-> "pending"]
     ELSE EvseTr(requests[i], lookups[i] = "failed")]

\* Promise.all of the pushed promises: settled when every one of them is
\* (at once when there is none)
PromiseAllOf(lookups) ==
  IF \A i \in 1..Len(lookups) : lookups[i] # "pending" THEN "returned" ELSE "called"

\* one call of the callback: it makes the getEvseTr calls and pushes their
\* promises, every lookup pending
ForEachEvseData ==
  /\ ret.state = "pending"
  /\ LET requests == RequestsOf(arg.data, arg.lastIndex)
         lookups == [i \in 1..Len(requests) |-> "pending"]
     IN  ret' = [state |-> PromiseAllOf(lookups),
                 requests |-> requests,
                 lookups |-> lookups,
                 pushed |-> PromisesOf(requests, lookups),
                 lastIndex |-> LastIndexAfter(arg.data, arg.lastIndex)]
  /\ UNCHANGED <<arg, runVars>>

\* the lookup of the i-th call settles, in a later turn and in any order
LookupSettles(i, outcome) ==
  /\ ret.state = "called"
  /\ i <= Len(ret.requests)
  /\ ret.lookups[i] = "pending"
  /\ LET lookups == [ret.lookups EXCEPT ![i] = outcome]
     IN  ret' = [ret EXCEPT !.state = PromiseAllOf(lookups),
                            !.lookups = lookups,
                            !.pushed = PromisesOf(ret.requests, lookups)]
  /\ UNCHANGED <<arg, runVars>>

\* getLanguageCodeByISO3166Alpha3 resolves for the i-th call
LanguageCodeResolves(i) == LookupSettles(i, "done")

\* getLanguageCodeByISO3166Alpha3 rejects for the i-th call: the catch of
\* getEvseTr runs
LanguageCodeRejects(i) == LookupSettles(i, "failed")

\* the most getEvseTr calls one record makes: its segments and two backfills
MaxCalls == MaxSegments + 2

LocalizedNext ==
  \/ ForEachEvseData
  \/ \E i \in 1..MaxCalls : LanguageCodeResolves(i)
  \/ \E i \in 1..MaxCalls : LanguageCodeRejects(i)

SpecLocalized == LocalizedInit /\ [][LocalizedNext]_vars

(***************************************************************************)
(* Properties of the run (Spec)                                            *)
(***************************************************************************)
StationStatements == {"clear", "subOperators", "evses", "evseTrs"} \cup Categories

Ids(rows) == {rows[i].id : i \in 1..Len(rows)}

\* C1: once the station transaction has begun, and unless it commits, the
\* committed store is the store as it was when the transaction began: while
\* the phase runs no write of it (the clear included) is visible, and after a
\* failure and the rollback the stations, translations, join tables and
\* operators are what they were before the phase.
C1_RollbackRestores ==
  (writes["clear"] # "none" /\ pc # "resolved") => db = before

\* C1 witness: the run was rejected after the clear and after further writes,
\* with stations of an earlier run in the store, which the transaction had
\* replaced
C1_Witness ==
  /\ pc = "rejected"
  /\ writes["clear"] = "done"
  /\ writes["evses"] = "done"
  /\ before.EVSE # {}
  /\ trx.EVSE # before.EVSE
  /\ db = before

\* C2: the statements are issued in a fixed order, each after the one before
\* it has completed: the operator phase (delete, insertOrUpdate, commit)
\* before any statement of the station phase; the clear before every write
\* of the station phase; the sub operators before the EVSEs; the EVSEs before
\* the translations and the join rows.
C2_FixedOrder ==
  /\ writes["opUpsert"] # "none" => writes["opDelete"] = "done"
  /\ (\E w \in StationStatements : writes[w] # "none") =>
       /\ writes["opDelete"] = "done"
       /\ writes["opUpsert"] = "done"
       /\ writes["opCommit"] = "done"
  /\ (\E w \in StationStatements \ {"clear"} : writes[w] # "none") =>
       writes["clear"] = "done"
  /\ writes["evses"] # "none" => writes["subOperators"] = "done"
  /\ (\E w \in {"evseTrs"} \cup Categories : writes[w] # "none") =>
       writes["evses"] = "done"
  /\ (\E c \in Categories : writes[c] # "none") => writes["evseTrs"] = "done"

\* C2 witness: a run that has reached the join rows
C2_Witness ==
  /\ pc = "joins"
  /\ \E c \in Categories : writes[c] = "issued"
  /\ writes["subOperators"] = "done"

\* C3: every EVSE row handed to insertOrUpdate has the id of an operator row
\* handed to insertOrUpdate in the same run (of the feed, or a sub operator),
\* and every translation row and join row has the id of such an EVSE row.
C3_ReferencesEmitted ==
  /\ \A i \in 1..Len(emitted.evses) :
       emitted.evses[i].operatorId \in Ids(emitted.operators) \cup Ids(emitted.subOperators)
  /\ \A i \in 1..Len(emitted.evseTrs) :
       emitted.evseTrs[i].evseId \in Ids(emitted.evses)
  /\ \A c \in Categories : \A i \in 1..Len(emitted.joins[c]) :
       emitted.joins[c][i].evseId \in Ids(emitted.evses)

\* C3 witness: a run with a sub operator, translations and join rows
C3_Witness ==
  /\ pc = "joins"
  /\ emitted.subOperators # <<>>
  /\ \E i \in 1..Len(emitted.evses) :
       emitted.evses[i].operatorId \notin Ids(emitted.operators)
  /\ emitted.evseTrs # <<>>
  /\ \E c \in Categories : emitted.joins[c] # <<>>

\* C8: the insertOrUpdate of every category that has rows is issued before
\* any of them completes, and the station transaction has committed only if
\* every statement issued has completed and none has failed.
C8_CommitAfterAllJoins ==
  /\ pc = "joins" =>
       \A c \in Categories : (emitted.joins[c] # <<>>) = (writes[c] # "null")
  /\ writes["commit"] = "done" =>
       /\ \A c \in Categories : writes[c] \in {"null", "done"}
       /\ \A c \in Categories : \A i \in 1..Len(emitted.joins[c]) :
            emitted.joins[c][i] \in db.joins[c]

\* C8 witness: a commit after the statements of several categories
C8_Witness ==
  /\ writes["commit"] = "done"
  /\ Cardinality({c \in Categories : writes[c] = "done"}) >= 2

\* C9: after a run that resolves, every operator of the feed is in the
\* Operator table with the name the feed gives and no parent.
C9_FeedOperatorsKept ==
  pc = "resolved" =>
    \A i \in 1..Len(feed) :
      [id |-> feed[i].OperatorID, name |-> feed[i].OperatorName, parentId |-> NULL]
        \in db.Operator

\* C10: after every run, resolved or rejected, every EVSE row of the store
\* has the id of an Operator row of the store.
C10_StationsHaveOperators ==
  pc \in {"resolved", "rejected"} =>
    \A e \in db.EVSE : \E o \in db.Operator : o.id = e.operatorId

(***************************************************************************)
(* Properties of processPossibleSubOperatorsFromEvseData (SpecResolver)    *)
(***************************************************************************)
\* the records of the batch that get a sub operator
Derived(batch) ==
  {i \in 1..Len(batch) : OPERATOR_ID_REGEX_exec(batch[i].EvseId) # batch[i].OperatorId}

\* C4: when the resolver returns, a record whose candidate id (the first
\* match of the pattern in its EvseId) is its operator id keeps the operator
\* id and gets no row; every other record gets the candidate as operator id
\* and exactly one row {id: candidate, name: null, parentId: operator id},
\* in record order, also when several records have the same candidate.
C4_Resolver ==
  ret.state = "returned" =>
    /\ Len(ret.subOperators) = Cardinality(Derived(arg))
    /\ Len(ret.evseData) = Len(arg)
    /\ \A i \in 1..Len(arg) :
         IF i \in Derived(arg)
         THEN /\ ret.evseData[i].OperatorId = OPERATOR_ID_REGEX_exec(arg[i].EvseId)
              /\ ret.subOperators[Cardinality({j \in Derived(arg) : j <= i})]
                   = [id |-> OPERATOR_ID_REGEX_exec(arg[i].EvseId), name |-> NULL,
                      parentId |-> arg[i].OperatorId]
         ELSE ret.evseData[i].OperatorId = arg[i].OperatorId

\* C4 witness: two records with the same candidate give two rows
C4_Witness ==
  /\ ret.state = "returned"
  /\ Len(ret.subOperators) = 2
  /\ ret.subOperators[1].id = ret.subOperators[2].id
  /\ ret.evseData[1].OperatorId # arg[1].OperatorId

(***************************************************************************)
(* Properties of getInternationalData (SpecLocalized)                      *)
(***************************************************************************)
IsScanned(request) == request.additionalInfo # NULL

\* the getEvseTr calls of a backfill
Backfilled(requests, alpha3) ==
  {i \in 1..Len(requests) : ~IsScanned(requests[i]) /\ requests[i].alpha3 = alpha3}

NonBlank(name) == name # NULL /\ Trim(name) # <<>>

\* the backfill rule for one anchor and its name field
BackfillRule(alpha3, name) ==
  LET scanned == \E i \in 1..Len(ret.requests) :
                   IsScanned(ret.requests[i]) /\ ret.requests[i].alpha3 = alpha3
  IN  IF ~scanned /\ NonBlank(name)
      THEN /\ Cardinality(Backfilled(ret.requests, alpha3)) = 1
           /\ \A i \in Backfilled(ret.requests, alpha3) :
                /\ ret.pushed[i].value.chargingStationName = name
                /\ ret.pushed[i].value.additionalInfo = NULL
      ELSE Backfilled(ret.requests, alpha3) = {}

\* C5: for each anchor, a record with no scanned segment of the anchor's code
\* (a record with no packed field included) and a non-blank name gets exactly
\* one backfill row with that name and no additional info; any other record
\* gets none.
C5_Backfill ==
  ret.state = "returned" =>
    /\ BackfillRule(EN_CHARGING_STATION_NAME_ALPHA_3, arg.data.EnChargingStationName)
    /\ BackfillRule(CHARGING_STATION_NAME_ALPHA_3, arg.data.ChargingStationName)

\* the record's packed field is a sequence of segments, each terminated
IsPacked == arg.data.EnAdditionalInfo = Pack(arg.data.segments)

\* the translation row the scan rule gives for a segment
SegmentRow(data, segment) ==
  [evseId |-> data.EvseId,
   chargingStationName |->
     IF segment.code = CHARGING_STATION_NAME_ALPHA_3 THEN data.ChargingStationName
     ELSE IF segment.code = EN_CHARGING_STATION_NAME_ALPHA_3 THEN data.EnChargingStationName
     ELSE NULL,
   additionalInfo |-> Trim(segment.text)]

\* the calls of the while loop among the calls from the i-th on, in order
RECURSIVE ScannedFrom(_, _)
ScannedFrom(requests, i) ==
  IF i > Len(requests) THEN <<>>
  ELSE (IF IsScanned(requests[i]) THEN <<i>> ELSE <<>>) \o ScannedFrom(requests, i + 1)

\* the rows pushed by the while loop, without their language code
ScannedRows ==
  LET at == ScannedFrom(ret.requests, 1)
  IN  [k \in 1..Len(at) |->
         [evseId |-> ret.pushed[at[k]].value.evseId,
          chargingStationName |-> ret.pushed[at[k]].value.chargingStationName,
          additionalInfo |-> ret.pushed[at[k]].value.additionalInfo]]

ScanRule ==
  ScannedRows = [k \in 1..Len(arg.data.segments) |->
                   SegmentRow(arg.data, arg.data.segments[k])]

\* a text that ends where its delimiter begins: it neither holds the
\* delimiter nor ends in "|"
Delimited(text) == FirstDelimiterFrom(text \o Delimiter, 1) = Len(text) + 1

\* the record's packed field is a sequence of segments CODE:text, each
\* terminated by the delimiter
IsSegmented ==
  /\ IsPacked
  /\ \A k \in 1..Len(arg.data.segments) : Delimited(arg.data.segments[k].text)

\* a text that "." matches to its end
OneLine(text) == \A k \in 1..Len(text) : text[k] \notin LineTerminator

\* C6: a packed field made of segments CODE:text, each terminated by the
\* delimiter, gives exactly one row per segment, in segment order, with the
\* station id, the trimmed text as additional info and the name of the
\* anchor the code is (none for any other code).
C6_ScanRule ==
  (ret.state = "returned" /\ IsSegmented) => ScanRule

\* The scan rule as the code has it: it holds of the fields whose texts hold
\* no line terminator.
ScanRuleOfOneLineTexts ==
  (/\ ret.state = "returned"
   /\ IsSegmented
   /\ \A k \in 1..Len(arg.data.segments) : OneLine(arg.data.segments[k].text))
    => ScanRule

\* C7: every getEvseTr call whose lookup has settled gives a row, with the
\* fields it was called with; when its lookup failed the language code is the
\* country code; no promise is ever rejected, whichever lookups fail and in
\* whichever order they settle, and extraction returns the rows of all calls
\* once every lookup has settled.
C7_LookupFallback ==
  ret.state \in {"called", "returned"} =>
    /\ Len(ret.pushed) = Len(ret.requests)
    /\ (ret.state = "returned") =
         (\A i \in 1..Len(ret.pushed) : ret.pushed[i].state = "resolved")
    /\ \A i \in 1..Len(ret.pushed) :
         \/ ret.lookups[i] = "pending" /\ ret.pushed[i].state = "pending"
         \/ /\ ret.lookups[i] # "pending"
            /\ ret.pushed[i].state = "resolved"
            /\ ret.pushed[i].value.evseId = ret.requests[i].evseId
            /\ ret.pushed[i].value.chargingStationName = ret.requests[i].chargingStationName
            /\ ret.pushed[i].value.additionalInfo = ret.requests[i].additionalInfo
            /\ ret.lookups[i] = "failed" =>
                 ret.pushed[i].value.languageCode = ret.requests[i].alpha3
            /\ (ret.lookups[i] = "done" /\ ret.requests[i].alpha3 = <<"G","B","R">>) =>
                 ret.pushed[i].value.languageCode = <<"e","n">>

\* C7 witness: of the lookups one has failed and one has succeeded, and all
\* have settled
C7_Witness ==
  /\ ret.state = "returned"
  /\ \E i \in 1..Len(ret.pushed) :
       /\ ret.lookups[i] = "failed"
       /\ ret.pushed[i].value.languageCode = ret.requests[i].alpha3
  /\ \E j \in 1..Len(ret.pushed) :
       /\ ret.lookups[j] = "done"
       /\ ret.pushed[j].value.languageCode = <<"e","n">>

=============================================================================
